---- MODULE Spec2Model ----
(***************************************************************************)
(* Model of DistributedModelStorage                                        *)
(* (professional_tui/electron/src/utils/storage_manager.ts): a cache of    *)
(* compressed model weights kept as files under <storagePath>/model_cache, *)
(* with an in-memory access log (a JavaScript Map, which iterates in       *)
(* insertion order) and an eviction step run at the end of every store.    *)
(*                                                                         *)
(* Spec runs the public operations one at a time, each to completion, on   *)
(* a healthy file system (the only I/O error is ENOENT on a missing file). *)
(* SpecAsync lets the calls of several callers overlap: a call is split    *)
(* at its awaits, and the code between two awaits runs as one step of the  *)
(* event loop.                                                             *)
(* SpecRestart adds the construction of a new instance on the same         *)
(* directory, SpecFault the rejections of compress, writeFile and readFile,*)
(* SpecAnyInput the empty name and the empty payload; SpecOtherNames and   *)
(* SpecSameName run overlapping stores of different names and of one name. *)
(* SpecRestat lets the size of the directory entry change between calls,   *)
(* and SpecSettle runs the overlapping calls, rejections of the awaited    *)
(* steps included, under the fairness of the event loop.                   *)
(* SpecVast and SpecFind model VastAIManager (utils/vastai.ts): the API    *)
(* key check, the set of active instances and the choice of an offer.      *)
(* Sizes are in bytes; the directory sizes and payloads are scaled down.   *)
(***************************************************************************)
EXTENDS Integers, Sequences, FiniteSets, TLC

\* ---------------------------------------------------------------- bounds
\* Model names the callers use.
Names == {"A", "B", "C"}

\* Largest value of the millisecond clock; at the bound the clock stalls, so
\* later operations share one timestamp.
MaxClock == 2

\* Largest accessCount an entry reaches; an operation that would exceed it is
\* not taken.
MaxAccess == 2

\* Raw weights the callers store (non-empty byte sequences).
Weights == {<<1, 1>>, <<0, 1>>}

\* Sizes stat reports for the storage directory's own entry.
DirSizes == {5, 15}

Strategies == {"lru", "least_accessed"}

\* The callers whose calls can overlap in SpecAsync, and the names they use.
Callers == {1, 2}

AsyncNames == {"A", "B"}

\* ------------------------------------------------------------ the codec
\* zlib's brotli codec is modelled by a run-length codec: a one-byte stream
\* header followed by (run length, byte) pairs.
StreamHeader == <<11>>

RECURSIVE RunLength(_, _)
RunLength(w, i) ==
    IF i > Len(w) \/ w[i] # w[1] THEN i - 1 ELSE RunLength(w, i + 1)

RECURSIVE EncodeRuns(_)
EncodeRuns(w) ==
    IF w = <<>> THEN <<>>
    ELSE LET n == RunLength(w, 1)
         IN  <<n, w[1]>> \o EncodeRuns(SubSeq(w, n + 1, Len(w)))

RECURSIVE Repeat(_, _)
Repeat(b, n) == IF n = 0 THEN <<>> ELSE <<b>> \o Repeat(b, n - 1)

RECURSIVE DecodeRuns(_)
DecodeRuns(c) ==
    IF c = <<>> THEN <<>>
    ELSE Repeat(c[2], c[1]) \o DecodeRuns(SubSeq(c, 3, Len(c)))

\* A well-formed stream: the header, then whole pairs with positive lengths.
WellFormed(c) ==
    /\ Len(c) >= 1
    /\ SubSeq(c, 1, 1) = StreamHeader
    /\ (Len(c) - 1) % 2 = 0
    /\ \A k \in 1..((Len(c) - 1) \div 2) : c[2 * k] >= 1

CompressModelWeights(weights) == StreamHeader \o EncodeRuns(weights)

\* [ok |-> TRUE, bytes] or, for a stream brotli rejects, [ok |-> FALSE].
DecompressModelWeights(compressedWeights) ==
    IF WellFormed(compressedWeights)
    THEN [ok |-> TRUE,
          bytes |-> DecodeRuns(SubSeq(compressedWeights, 2, Len(compressedWeights)))]
    ELSE [ok |-> FALSE, bytes |-> <<>>]

\* ------------------------------------------------------------- the state
VARIABLES
    files,              \* model_cache directory: path -> [exists, data]
    modelAccessLog,     \* the Map, as its entries in insertion order
    clock,              \* the time new Date() reports, in ms
    dirSize,            \* size stat reports for storagePath itself
    evictionStrategy,   \* storageConfig.evictionStrategy
    lastOp,             \* the call that completed last, with its outcome
    createdOrder,       \* history: names of the live entries, oldest entry first
    distinctStores,     \* history: the stores so far, while all of distinct names
    calls,              \* the call each caller has in flight (idle in Spec)
    credentials,        \* what credentialManager.getCredentials() resolves to
    apiKey,             \* VastAIManager.apiKey
    activeInstances,    \* VastAIManager.activeInstances
    bundles,            \* the offers GET /bundles responds with
    vastOp              \* the VastAIManager call that completed last

storageVars == <<files, modelAccessLog, clock, dirSize, evictionStrategy,
                 lastOp, createdOrder, distinctStores, calls>>

vastVars == <<credentials, apiKey, activeInstances, bundles, vastOp>>

vars == <<files, modelAccessLog, clock, dirSize, evictionStrategy, lastOp,
          createdOrder, distinctStores, calls, credentials, apiKey,
          activeInstances, bundles, vastOp>>

GetModelStoragePath(modelName) == <<"model_cache", modelName, "brotli">>

\* The empty string and the empty Buffer, which storeModelWeights accepts as
\* it accepts any other.
EmptyName == ""

EmptyWeights == <<>>

Paths == {GetModelStoragePath(n) : n \in Names \cup {EmptyName}}

NoFile == [exists |-> FALSE, data |-> <<>>]

\* fs.writeFile, once it has completed.
WriteFile(fs, path, data) == [fs EXCEPT ![path] = [exists |-> TRUE, data |-> data]]

\* Mutant: the file is left on disk.
RemoveNothing(fs, path) == fs

\* fs.removeSync: no error when the file is missing.
RemoveSync(fs, path) == [fs EXCEPT ![path] = NoFile]

\* ------------------------------------------------------- the access log
LogNames(log) == {log[i].modelName : i \in 1..Len(log)}

IndexOf(log, modelName) ==
    CHOOSE i \in 1..Len(log) : log[i].modelName = modelName

\* Mutant: an array push in place of Map.set, which adds an entry every time.
PushModelAccessLog(log, modelName, size, now) ==
    Append(log, [modelName |-> modelName, timestamp |-> now, size |-> size,
                 accessCount |-> IF modelName \in LogNames(log)
                                 THEN log[IndexOf(log, modelName)].accessCount + 1
                                 ELSE 1])

\* Mutant: every entry is set under one key, so a new entry replaces the last.
SetUnderOneKey(log, modelName, size, now) ==
    LET entry == [modelName |-> modelName, timestamp |-> now, size |-> size,
                  accessCount |-> 1]
    IN  IF log = <<>> THEN <<entry>> ELSE [log EXCEPT ![Len(log)] = entry]

\* Mutant: a store of an existing key leaves the size recorded first.
KeepFirstSize(log, modelName, size, now) ==
    IF modelName \in LogNames(log)
    THEN LET i == IndexOf(log, modelName)
         IN  [log EXCEPT ![i].timestamp = now,
                         ![i].accessCount = log[i].accessCount + 1]
    ELSE Append(log, [modelName |-> modelName, timestamp |-> now,
                      size |-> size, accessCount |-> 1])

\* Map.set: an existing key keeps its place, a new key goes last.
UpdateModelAccessLog(log, modelName, size, now) ==
    IF modelName \in LogNames(log)
    THEN LET i == IndexOf(log, modelName)
         IN  [log EXCEPT ![i] = [modelName |-> modelName, timestamp |-> now,
                                 size |-> size,
                                 accessCount |-> log[i].accessCount + 1]]
    ELSE Append(log, [modelName |-> modelName, timestamp |-> now,
                      size |-> size, accessCount |-> 1])

\* Mutant: a retrieve of a name without an entry creates one.
CountOrCreate(log, modelName, now) ==
    IF modelName \in LogNames(log)
    THEN LET i == IndexOf(log, modelName)
         IN  [log EXCEPT ![i].accessCount = log[i].accessCount + 1,
                         ![i].timestamp = now]
    ELSE Append(log, [modelName |-> modelName, timestamp |-> now,
                      size |-> 0, accessCount |-> 1])

\* Mutant: a retrieve consumes the entry it reads.
DeleteOnAccess(log, modelName, now) ==
    SelectSeq(log, LAMBDA e : e.modelName # modelName)

\* Mutant: a retrieve refreshes the timestamp and leaves the counter.
TouchTimestampOnly(log, modelName, now) ==
    IF modelName \in LogNames(log)
    THEN [log EXCEPT ![IndexOf(log, modelName)].timestamp = now]
    ELSE log

UpdateModelAccessCount(log, modelName, now) ==
    IF modelName \in LogNames(log)
    THEN LET i == IndexOf(log, modelName)
         IN  [log EXCEPT ![i].accessCount = log[i].accessCount + 1,
                         ![i].timestamp = now]
    ELSE log

RECURSIVE SumSizes(_, _)
SumSizes(log, i) ==
    IF i > Len(log) THEN 0 ELSE log[i].size + SumSizes(log, i + 1)

CalculateTotalCacheSize(log) == SumSizes(log, 1)

GetTotalDiskSpace(statSize) == statSize

\* Mutant: Math.ceil in place of Math.floor.
CeilMaxCacheSize(statSize) == (GetTotalDiskSpace(statSize) * 8 + 9) \div 10

\* Math.floor(totalDiskSpace * 0.8)
CalculateMaxCacheSize(statSize) == (GetTotalDiskSpace(statSize) * 8) \div 10

\* ------------------------------------------------------------- eviction
\* Mutant: the comparator with its operands swapped (a descending sort).
CompareDescending(a, b, strategy) ==
    IF strategy = "lru" THEN b.timestamp - a.timestamp
    ELSE b.accessCount - a.accessCount

\* Mutant: both strategies compare the access counts.
CompareCounts(a, b, strategy) == a.accessCount - b.accessCount

\* The comparator handed to Array.prototype.sort.
Compare(a, b, strategy) ==
    IF strategy = "lru" THEN a.timestamp - b.timestamp
    ELSE a.accessCount - b.accessCount

\* Mutant: an unstable sort, which puts e before the elements it ties with.
InsertBeforeTies(sorted, e, strategy) ==
    LET before == SelectSeq(sorted, LAMBDA x : Compare(x, e, strategy) < 0)
        after == SelectSeq(sorted, LAMBDA x : Compare(x, e, strategy) >= 0)
    IN  before \o <<e>> \o after

\* Array.prototype.sort is stable: e goes after every element that does not
\* compare greater than it.
RECURSIVE InsertSorted(_, _, _)
InsertSorted(sorted, e, strategy) ==
    IF sorted = <<>> THEN <<e>>
    ELSE IF Compare(Head(sorted), e, strategy) <= 0
         THEN <<Head(sorted)>> \o InsertSorted(Tail(sorted), e, strategy)
         ELSE <<e>> \o sorted

RECURSIVE SortModels(_, _)
SortModels(log, strategy) ==
    IF log = <<>> THEN <<>>
    ELSE InsertSorted(SortModels(SubSeq(log, 1, Len(log) - 1), strategy),
                      log[Len(log)], strategy)

MapDelete(log, modelName) ==
    SelectSeq(log, LAMBDA e : e.modelName # modelName)

\* The for loop of evictModels, from the k-th sorted model on.
RECURSIVE EvictLoop(_, _, _, _, _)
EvictLoop(sortedModels, k, freedBytes, bytesToFree, st) ==
    IF k > Len(sortedModels) \/ freedBytes >= bytesToFree THEN st
    ELSE LET model == sortedModels[k]
         IN  EvictLoop(sortedModels, k + 1, freedBytes + model.size, bytesToFree,
                 [log |-> MapDelete(st.log, model.modelName),
                  files |-> RemoveSync(st.files,
                                       GetModelStoragePath(model.modelName)),
                  evicted |-> Append(st.evicted, model.modelName)])

\* Mutant: the loop stops after its first victim.
EvictFirstOnly(log, fs, bytesToFree, strategy) ==
    LET sortedModels == SortModels(log, strategy)
    IN  EvictLoop(SubSeq(sortedModels, 1, 1), 1, 0, bytesToFree,
                  [log |-> log, files |-> fs, evicted |-> <<>>])

\* Mutant: the loop never breaks, so every entry is evicted.
EvictEverything(log, fs, bytesToFree, strategy) ==
    EvictLoop(SortModels(log, strategy), 1, 0,
              CalculateTotalCacheSize(log) + 1,
              [log |-> log, files |-> fs, evicted |-> <<>>])

EvictModels(log, fs, bytesToFree, strategy) ==
    EvictLoop(SortModels(log, strategy), 1, 0, bytesToFree,
              [log |-> log, files |-> fs, evicted |-> <<>>])

\* [log, files, evicted, notes]: notes are the notifications sent.
ManageCacheSpace(log, fs, statSize, strategy) ==
    LET totalCacheSize == CalculateTotalCacheSize(log)
        maxCacheSize == CalculateMaxCacheSize(statSize)
    IN  IF totalCacheSize > maxCacheSize
        THEN LET r == EvictModels(log, fs, totalCacheSize - maxCacheSize, strategy)
             IN  [log |-> r.log, files |-> r.files, evicted |-> r.evicted,
                  notes |-> <<"warning">>]
        ELSE [log |-> log, files |-> fs, evicted |-> <<>>, notes |-> <<>>]

\* ------------------------------------------------------- the operations
NoStats == [totalModels |-> 0, totalSize |-> 0, availableSpace |-> 0]

\* A completed call: ok is TRUE when its promise resolved, FALSE when it
\* rejected (error then holds the kind of the Error thrown).
Outcome(op, modelName, weights) ==
    [op |-> op, modelName |-> modelName, weights |-> weights, ok |-> TRUE,
     error |-> "", bytes |-> <<>>, evicted |-> <<>>, notes |-> <<>>,
     names |-> <<>>, stats |-> NoStats]

\* No call in flight.
Idle == [op |-> "idle", modelName |-> "", weights |-> <<>>, pc |-> "",
         data |-> <<>>, ok |-> FALSE]

NoDistinctStores == [pure |-> FALSE, names |-> {}, evictions |-> FALSE]

\* The times new Date() can report next: the clock has ms resolution, so two
\* operations can share a timestamp.
Now == {clock} \cup (IF clock < MaxClock THEN {clock + 1} ELSE {})

Range(seq) == {seq[i] : i \in 1..Len(seq)}

EntryOf(log, modelName) == log[IndexOf(log, modelName)]

CountBelowBound(modelName) ==
    modelName \in LogNames(modelAccessLog)
        => EntryOf(modelAccessLog, modelName).accessCount < MaxAccess

\* ------------------------------------------------ VastAIManager: values
\* getCredentials() resolved to null.
NoCredentials == [present |-> FALSE, vastaiApiKey |-> ""]

\* What getCredentials() can resolve to: null, an empty key, a key.
CredentialStates ==
    {NoCredentials, [present |-> TRUE, vastaiApiKey |-> ""],
     [present |-> TRUE, vastaiApiKey |-> "key"]}

\* The initial value of the apiKey field (null).
NoApiKey == "null"

\* The null findSuitableInstance returns.
NoOffer == [id |-> 0, num_gpus |-> 0, cuda_max_good |-> 0, dlperf |-> 0]

NoRequirements ==
    [minGPUs |-> 0, minVRAM |-> 0, hasMinDLPerf |-> FALSE, minDLPerf |-> 0]

\* A completed VastAIManager call: ok is TRUE when its promise resolved; sent
\* is the number of HTTP requests it made.
VastOutcome(op) ==
    [op |-> op, ok |-> TRUE, error |-> "", sent |-> 0, offer |-> NoOffer,
     requirements |-> NoRequirements, instanceId |-> 0, cost |-> 0]

\* A new VastAIManager, before any credentials are saved, while the API
\* lists no offer.
VastInit ==
    /\ credentials = NoCredentials
    /\ apiKey = NoApiKey
    /\ activeInstances = {}
    /\ bundles = <<>>
    /\ vastOp = VastOutcome("none")

Init ==
    /\ files = [p \in Paths |-> NoFile]
    /\ modelAccessLog = <<>>
    /\ clock = 0
    /\ dirSize \in DirSizes
    /\ evictionStrategy \in Strategies
    /\ lastOp = Outcome("none", "", <<>>)
    /\ createdOrder = <<>>
    /\ distinctStores = [pure |-> TRUE, names |-> {}, evictions |-> FALSE]
    /\ calls = [c \in Callers |-> Idle]
    /\ VastInit

\* storeModelWeights on a healthy file system: compress, write the file,
\* update the log, manage the cache space, notify.
StoreModelWeights(modelName, weights, now) ==
    /\ CountBelowBound(modelName)
    /\ LET compressedWeights == CompressModelWeights(weights)
           storagePath == GetModelStoragePath(modelName)
           written == WriteFile(files, storagePath, compressedWeights)
           logged == UpdateModelAccessLog(modelAccessLog, modelName,
                                          Len(compressedWeights), now)
           managed == ManageCacheSpace(logged, written, dirSize, evictionStrategy)
           created == IF modelName \in Range(createdOrder) THEN createdOrder
                      ELSE Append(createdOrder, modelName)
       IN  /\ files' = managed.files
           /\ modelAccessLog' = managed.log
           /\ lastOp' = [Outcome("store", modelName, weights) EXCEPT
                             !.evicted = managed.evicted,
                             !.notes = managed.notes \o <<"success">>]
           /\ createdOrder' =
                  SelectSeq(created, LAMBDA n : n \notin Range(managed.evicted))
           /\ distinctStores' =
                  IF distinctStores.pure /\ modelName \notin distinctStores.names
                  THEN [pure |-> TRUE,
                        names |-> distinctStores.names \cup {modelName},
                        evictions |-> distinctStores.evictions
                                          \/ managed.evicted # <<>>]
                  ELSE NoDistinctStores
    /\ clock' = now
    /\ UNCHANGED <<dirSize, evictionStrategy, calls>>
    /\ UNCHANGED vastVars

\* Mutant: the catch block rethrows the error it caught.
RethrowCause(cause) == cause

\* The Error the catch block of retrieveModelWeights throws, whatever the cause.
RetrievalError(cause) == "not found in storage"

\* retrieveModelWeights: read the file (ENOENT when it is missing), count the
\* access, notify, decompress.
RetrieveModelWeights(modelName, now) ==
    /\ files[GetModelStoragePath(modelName)].exists => CountBelowBound(modelName)
    /\ LET file == files[GetModelStoragePath(modelName)]
           decompressed == DecompressModelWeights(file.data)
           Rejected(cause) == [Outcome("retrieve", modelName, <<>>) EXCEPT
                                  !.ok = FALSE, !.error = RetrievalError(cause)]
       IN  IF ~file.exists
           THEN /\ modelAccessLog' = modelAccessLog
                /\ lastOp' = [Rejected("ENOENT") EXCEPT !.notes = <<"error">>]
           ELSE /\ modelAccessLog' =
                       UpdateModelAccessCount(modelAccessLog, modelName, now)
                /\ lastOp' =
                       IF decompressed.ok
                       THEN [Outcome("retrieve", modelName, <<>>) EXCEPT
                                 !.bytes = decompressed.bytes,
                                 !.notes = <<"info">>]
                       ELSE [Rejected("decompression failed") EXCEPT
                                 !.notes = <<"info", "error">>]
    /\ clock' = now
    /\ distinctStores' = NoDistinctStores
    /\ UNCHANGED <<files, dirSize, evictionStrategy, createdOrder, calls>>
    /\ UNCHANGED vastVars

\* listCachedModels: the keys of the Map, in its order.
CachedModels(log) == [i \in 1..Len(log) |-> log[i].modelName]

ListCachedModels ==
    /\ lastOp' = [Outcome("list", "", <<>>) EXCEPT
                      !.names = CachedModels(modelAccessLog)]
    /\ UNCHANGED <<files, modelAccessLog, clock, dirSize, evictionStrategy,
                   createdOrder, distinctStores, calls>>
    /\ UNCHANGED vastVars

CacheStats(log, statSize) ==
    [totalModels |-> Len(log),
     totalSize |-> CalculateTotalCacheSize(log),
     availableSpace |-> CalculateMaxCacheSize(statSize)
                            - CalculateTotalCacheSize(log)]

GetCacheStats ==
    /\ lastOp' = [Outcome("stats", "", <<>>) EXCEPT
                      !.stats = CacheStats(modelAccessLog, dirSize)]
    /\ UNCHANGED <<files, modelAccessLog, clock, dirSize, evictionStrategy,
                   createdOrder, distinctStores, calls>>
    /\ UNCHANGED vastVars

Store == \E n \in Names, w \in Weights, now \in Now : StoreModelWeights(n, w, now)

Retrieve == \E n \in Names, now \in Now : RetrieveModelWeights(n, now)

Next == Store \/ Retrieve \/ ListCachedModels \/ GetCacheStats

Spec == Init /\ [][Next]_vars

\* The same store on a directory whose capacity holds any single artifact.
InitRoomy ==
    /\ Init
    /\ \A w \in Weights :
           Len(CompressModelWeights(w)) <= CalculateMaxCacheSize(dirSize)

SpecRoomy == InitRoomy /\ [][Next]_vars

\* ------------------------------------------------------------- restart
\* The process ends and a new DistributedModelStorage is constructed on the
\* same storage directory: the Map starts empty (its field initializer), and
\* ensureDirSync leaves the files of model_cache as they are.
Construct ==
    /\ modelAccessLog' = <<>>
    /\ lastOp' = Outcome("construct", "", <<>>)
    /\ createdOrder' = <<>>
    /\ distinctStores' = NoDistinctStores
    /\ UNCHANGED <<files, clock, dirSize, evictionStrategy, calls>>
    /\ UNCHANGED vastVars

NextRestart == Next \/ Construct

SpecRestart == Init /\ [][NextRestart]_vars

\* ------------------------------------------------------------ any input
\* The calls with every string and Buffer a caller can pass, the empty ones
\* included: storeModelWeights runs the same statements on them.
StoreAnyInput ==
    \E n \in AsyncNames \cup {EmptyName}, w \in Weights \cup {EmptyWeights},
       now \in Now : StoreModelWeights(n, w, now)

RetrieveAnyInput ==
    \E n \in AsyncNames \cup {EmptyName}, now \in Now :
        RetrieveModelWeights(n, now)

NextAnyInput ==
    StoreAnyInput \/ RetrieveAnyInput \/ ListCachedModels \/ GetCacheStats

SpecAnyInput == Init /\ [][NextAnyInput]_vars

\* ------------------------------------------------------------ I/O faults
\* The causes for which the awaits of storeModelWeights reject.
StoreFaults == {"compression failed", "write failed"}

\* Mutant: the catch block throws an Error of its own.
WrapStoreError(error) == "failed to store"

\* The catch block of storeModelWeights rethrows the error it caught.
StoreError(error) == error

\* What a failed fs.writeFile can leave: the file as it was (the open
\* failed), or the file created or truncated and holding a proper prefix of
\* the buffer (the write failed): here no byte, or all but the last.
WriteFailureOutcomes(fs, path, data) ==
    {fs} \cup {WriteFile(fs, path, SubSeq(data, 1, k)) : k \in {0, Len(data) - 1}}

\* storeModelWeights when brotliCompress or fs.writeFile rejects: the rest of
\* the try block is skipped, the catch block notifies and rethrows.
StoreModelWeightsFails(modelName, weights, cause) ==
    /\ files' \in
           IF cause = "write failed"
           THEN WriteFailureOutcomes(files, GetModelStoragePath(modelName),
                                     CompressModelWeights(weights))
           ELSE {files}
    /\ lastOp' = [Outcome("store", modelName, weights) EXCEPT
                      !.ok = FALSE, !.error = StoreError(cause),
                      !.notes = <<"error">>]
    /\ distinctStores' = NoDistinctStores
    /\ UNCHANGED <<modelAccessLog, clock, dirSize, evictionStrategy,
                   createdOrder, calls>>
    /\ UNCHANGED vastVars

\* retrieveModelWeights when fs.readFile rejects on a file that exists (EIO,
\* EACCES): the catch block runs.
RetrieveModelWeightsReadFails(modelName) ==
    /\ files[GetModelStoragePath(modelName)].exists
    /\ lastOp' = [Outcome("retrieve", modelName, <<>>) EXCEPT
                      !.ok = FALSE, !.error = RetrievalError("EIO"),
                      !.notes = <<"error">>]
    /\ distinctStores' = NoDistinctStores
    /\ UNCHANGED <<files, modelAccessLog, clock, dirSize, evictionStrategy,
                   createdOrder, calls>>
    /\ UNCHANGED vastVars

\* The calls of the fault runs use the names of AsyncNames.
StoreOnDisk ==
    \E n \in AsyncNames, w \in Weights, now \in Now : StoreModelWeights(n, w, now)

RetrieveFromDisk == \E n \in AsyncNames, now \in Now : RetrieveModelWeights(n, now)

StoreFails ==
    \E n \in AsyncNames, w \in Weights, cause \in StoreFaults :
        StoreModelWeightsFails(n, w, cause)

ReadFails == \E n \in AsyncNames : RetrieveModelWeightsReadFails(n)

NextFault ==
    \/ StoreOnDisk \/ RetrieveFromDisk \/ ListCachedModels \/ GetCacheStats
    \/ StoreFails \/ ReadFails

SpecFault == Init /\ [][NextFault]_vars

\* ------------------------------------------------- the directory entry
\* Sizes of the directory entry of which 80% is not a whole number, and a
\* directory entry whose size changes between calls (statSync is called
\* anew by every store and every getCacheStats).
StatSizes == {6, 14}

InitRestat ==
    /\ files = [p \in Paths |-> NoFile]
    /\ modelAccessLog = <<>>
    /\ clock = 0
    /\ dirSize \in StatSizes
    /\ evictionStrategy \in Strategies
    /\ lastOp = Outcome("none", "", <<>>)
    /\ createdOrder = <<>>
    /\ distinctStores = NoDistinctStores
    /\ calls = [c \in Callers |-> Idle]
    /\ VastInit

\* The file system changes the size it reports for the directory.
Restat ==
    /\ dirSize' \in StatSizes \ {dirSize}
    /\ lastOp' = Outcome("none", "", <<>>)
    /\ distinctStores' = NoDistinctStores
    /\ UNCHANGED <<files, modelAccessLog, clock, evictionStrategy,
                   createdOrder, calls>>
    /\ UNCHANGED vastVars

NextRestat ==
    \/ StoreOnDisk \/ RetrieveFromDisk \/ ListCachedModels \/ GetCacheStats
    \/ Restat

SpecRestat == InitRestat /\ [][NextRestat]_vars

\* ------------------------------------------------- overlapping calls
\* A caller starts a call only when the callers before it are busy (the
\* callers are interchangeable).
CanBegin(c) ==
    /\ calls[c] = Idle
    /\ \A d \in Callers : d < c => calls[d] # Idle

\* storeModelWeights is called: brotliCompress is started and awaited.
BeginStore(c, modelName, weights) ==
    /\ CanBegin(c)
    /\ calls' = [calls EXCEPT ![c] =
                     [op |-> "store", modelName |-> modelName,
                      weights |-> weights, pc |-> "compress", data |-> <<>>,
                      ok |-> FALSE]]
    /\ UNCHANGED <<files, modelAccessLog, clock, dirSize, evictionStrategy,
                   lastOp, createdOrder, distinctStores>>
    /\ UNCHANGED vastVars

\* The compression has resolved; fs.writeFile opens the file with flag 'w',
\* which creates or truncates it. ok records that the path still names the
\* opened file.
StoreOpenFile(c) ==
    /\ calls[c].op = "store" /\ calls[c].pc = "compress"
    /\ calls' = [calls EXCEPT ![c].pc = "write",
                              ![c].data = CompressModelWeights(calls[c].weights),
                              ![c].ok = TRUE]
    /\ files' = WriteFile(files, GetModelStoragePath(calls[c].modelName), <<>>)
    /\ UNCHANGED <<modelAccessLog, clock, dirSize, evictionStrategy, lastOp,
                   createdOrder, distinctStores>>
    /\ UNCHANGED vastVars

\* Bytes written at offset 0 over the present content of the file.
Overlay(data, present) ==
    IF Len(present) > Len(data)
    THEN data \o SubSeq(present, Len(data) + 1, Len(present))
    ELSE data

\* fs.writeFile writes the buffer; a file unlinked since it was opened takes
\* the bytes with it.
StoreWriteData(c) ==
    /\ calls[c].op = "store" /\ calls[c].pc = "write"
    /\ calls' = [calls EXCEPT ![c].pc = "written"]
    /\ LET path == GetModelStoragePath(calls[c].modelName)
       IN  files' = IF calls[c].ok
                    THEN WriteFile(files, path,
                                   Overlay(calls[c].data, files[path].data))
                    ELSE files
    /\ UNCHANGED <<modelAccessLog, clock, dirSize, evictionStrategy, lastOp,
                   createdOrder, distinctStores>>
    /\ UNCHANGED vastVars

\* The calls after an eviction: a file being written that was removed is no
\* longer the file its path names.
Unlinked(cs, evicted) ==
    [d \in Callers |->
        IF cs[d].op = "store" /\ cs[d].pc = "write"
               /\ cs[d].modelName \in Range(evicted)
        THEN [cs[d] EXCEPT !.ok = FALSE]
        ELSE cs[d]]

\* The write has resolved: the rest of storeModelWeights runs in one turn of
\* the event loop (update the log, manage the cache space, notify).
StoreTail(c, now) ==
    /\ calls[c].op = "store" /\ calls[c].pc = "written"
    /\ CountBelowBound(calls[c].modelName)
    /\ LET modelName == calls[c].modelName
           logged == UpdateModelAccessLog(modelAccessLog, modelName,
                                          Len(calls[c].data), now)
           managed == ManageCacheSpace(logged, files, dirSize, evictionStrategy)
           created == IF modelName \in Range(createdOrder) THEN createdOrder
                      ELSE Append(createdOrder, modelName)
       IN  /\ files' = managed.files
           /\ modelAccessLog' = managed.log
           /\ lastOp' = [Outcome("store", modelName, calls[c].weights) EXCEPT
                             !.evicted = managed.evicted,
                             !.notes = managed.notes \o <<"success">>]
           /\ createdOrder' =
                  SelectSeq(created, LAMBDA n : n \notin Range(managed.evicted))
           /\ calls' = [Unlinked(calls, managed.evicted) EXCEPT ![c] = Idle]
    /\ clock' = now
    /\ distinctStores' = NoDistinctStores
    /\ UNCHANGED <<dirSize, evictionStrategy>>
    /\ UNCHANGED vastVars

\* retrieveModelWeights is called: fs.readFile is started and awaited.
BeginRetrieve(c, modelName) ==
    /\ CanBegin(c)
    /\ calls' = [calls EXCEPT ![c] =
                     [op |-> "retrieve", modelName |-> modelName,
                      weights |-> <<>>, pc |-> "read", data |-> <<>>,
                      ok |-> FALSE]]
    /\ UNCHANGED <<files, modelAccessLog, clock, dirSize, evictionStrategy,
                   lastOp, createdOrder, distinctStores>>
    /\ UNCHANGED vastVars

\* fs.readFile reads what the file holds now, or fails with ENOENT.
RetrieveReadFile(c) ==
    /\ calls[c].op = "retrieve" /\ calls[c].pc = "read"
    /\ LET file == files[GetModelStoragePath(calls[c].modelName)]
       IN  calls' = [calls EXCEPT ![c].pc = "readdone",
                                  ![c].data = file.data,
                                  ![c].ok = file.exists]
    /\ UNCHANGED <<files, modelAccessLog, clock, dirSize, evictionStrategy,
                   lastOp, createdOrder, distinctStores>>
    /\ UNCHANGED vastVars

\* Mutant: a read that failed is started again instead of rejecting the call.
RetrieveRetries(c, now) ==
    /\ calls[c].op = "retrieve" /\ calls[c].pc = "readdone"
    /\ calls[c].ok => CountBelowBound(calls[c].modelName)
    /\ IF calls[c].ok
       THEN /\ modelAccessLog' =
                   UpdateModelAccessCount(modelAccessLog, calls[c].modelName, now)
            /\ calls' = [calls EXCEPT ![c].pc = "decompress"]
       ELSE /\ modelAccessLog' = modelAccessLog
            /\ calls' = [calls EXCEPT ![c].pc = "read"]
    /\ lastOp' = lastOp
    /\ clock' = now
    /\ distinctStores' = NoDistinctStores
    /\ UNCHANGED <<files, dirSize, evictionStrategy, createdOrder>>
    /\ UNCHANGED vastVars

\* The read has settled: on an error the catch block runs; otherwise the
\* access is counted, the notification sent and brotliDecompress awaited.
RetrieveContinue(c, now) ==
    /\ calls[c].op = "retrieve" /\ calls[c].pc = "readdone"
    /\ calls[c].ok => CountBelowBound(calls[c].modelName)
    /\ IF calls[c].ok
       THEN /\ modelAccessLog' =
                   UpdateModelAccessCount(modelAccessLog, calls[c].modelName, now)
            /\ calls' = [calls EXCEPT ![c].pc = "decompress"]
            /\ lastOp' = lastOp
       ELSE /\ modelAccessLog' = modelAccessLog
            /\ calls' = [calls EXCEPT ![c] = Idle]
            /\ lastOp' = [Outcome("retrieve", calls[c].modelName, <<>>) EXCEPT
                              !.ok = FALSE, !.error = RetrievalError("ENOENT"),
                              !.notes = <<"error">>]
    /\ clock' = now
    /\ distinctStores' = NoDistinctStores
    /\ UNCHANGED <<files, dirSize, evictionStrategy, createdOrder>>
    /\ UNCHANGED vastVars

\* The decompression has settled: the call returns the bytes, or the catch
\* block runs.
RetrieveSettle(c) ==
    /\ calls[c].op = "retrieve" /\ calls[c].pc = "decompress"
    /\ LET decompressed == DecompressModelWeights(calls[c].data)
       IN  lastOp' =
               IF decompressed.ok
               THEN [Outcome("retrieve", calls[c].modelName, <<>>) EXCEPT
                         !.bytes = decompressed.bytes, !.notes = <<"info">>]
               ELSE [Outcome("retrieve", calls[c].modelName, <<>>) EXCEPT
                         !.ok = FALSE,
                         !.error = RetrievalError("decompression failed"),
                         !.notes = <<"info", "error">>]
    /\ calls' = [calls EXCEPT ![c] = Idle]
    /\ UNCHANGED <<files, modelAccessLog, clock, dirSize, evictionStrategy,
                   createdOrder, distinctStores>>
    /\ UNCHANGED vastVars

CallStore == \E c \in Callers, n \in AsyncNames, w \in Weights : BeginStore(c, n, w)

OpenFile == \E c \in Callers : StoreOpenFile(c)

WriteData == \E c \in Callers : StoreWriteData(c)

FinishStore == \E c \in Callers, now \in Now : StoreTail(c, now)

CallRetrieve == \E c \in Callers, n \in AsyncNames : BeginRetrieve(c, n)

ReadFile == \E c \in Callers : RetrieveReadFile(c)

ContinueRetrieve == \E c \in Callers, now \in Now : RetrieveContinue(c, now)

SettleRetrieve == \E c \in Callers : RetrieveSettle(c)

NextAsync ==
    \/ CallStore \/ OpenFile \/ WriteData \/ FinishStore
    \/ CallRetrieve \/ ReadFile \/ ContinueRetrieve \/ SettleRetrieve

\* The overlapping calls run on a directory too small for some single
\* artifact, where stores overflow the capacity and evict.
InitAsync ==
    /\ Init
    /\ \E w \in Weights :
           Len(CompressModelWeights(w)) > CalculateMaxCacheSize(dirSize)

SpecAsync == InitAsync /\ [][NextAsync]_vars

\* ------------------------------------------------- overlapping stores
\* Stores of different names overlap: a store is called for a name that no
\* call in flight uses (the name may have been stored before).
CallStoreOfOtherName ==
    \E c \in Callers, n \in AsyncNames, w \in Weights :
        /\ \A d \in Callers : calls[d].modelName # n
        /\ BeginStore(c, n, w)

NextOtherNames == CallStoreOfOtherName \/ OpenFile \/ WriteData \/ FinishStore

SpecOtherNames == Init /\ [][NextOtherNames]_vars

\* Stores of one name overlap, on a directory whose capacity holds any
\* artifact, so that no store evicts.
SameName == "A"

CallStoreOfSameName ==
    \E c \in Callers, w \in Weights : BeginStore(c, SameName, w)

NextSameName == CallStoreOfSameName \/ OpenFile \/ WriteData \/ FinishStore

SpecSameName == InitRoomy /\ [][NextSameName]_vars

\* ------------------------------------------------- calls run to the end
\* The calls in flight on a name.
InFlight(modelName) ==
    Cardinality({c \in Callers : calls[c].modelName = modelName})

\* The accessCount of a name, 0 without an entry.
AccessCountOf(modelName) ==
    IF modelName \in LogNames(modelAccessLog)
    THEN EntryOf(modelAccessLog, modelName).accessCount
    ELSE 0

\* A call on a name is started only while the accessCount bound leaves room
\* for it and for the calls in flight on the name, so that no call in flight
\* waits on the bound.
WithinBound(modelName) ==
    AccessCountOf(modelName) + InFlight(modelName) < MaxAccess

\* A store of a payload whose artifact fits the capacity by itself.
CallStoreWithinBound ==
    \E c \in Callers, n \in AsyncNames, w \in Weights :
        /\ WithinBound(n)
        /\ Len(CompressModelWeights(w)) <= CalculateMaxCacheSize(dirSize)
        /\ BeginStore(c, n, w)

CallRetrieveWithinBound ==
    \E c \in Callers, n \in AsyncNames :
        WithinBound(n) /\ BeginRetrieve(c, n)

\* The awaited brotliCompress or fs.writeFile of a store in flight rejects:
\* the catch block notifies and rethrows. A write that fails after the open
\* leaves the truncated file.
StoreAwaitRejects(c, cause) ==
    /\ calls[c].op = "store"
    /\ calls[c].pc = (IF cause = "compression failed" THEN "compress"
                                                        ELSE "write")
    /\ lastOp' = [Outcome("store", calls[c].modelName, calls[c].weights) EXCEPT
                      !.ok = FALSE, !.error = StoreError(cause),
                      !.notes = <<"error">>]
    /\ calls' = [calls EXCEPT ![c] = Idle]
    /\ UNCHANGED <<files, modelAccessLog, clock, dirSize, evictionStrategy,
                   createdOrder, distinctStores>>
    /\ UNCHANGED vastVars

RejectStore ==
    \E c \in Callers, cause \in StoreFaults : StoreAwaitRejects(c, cause)

NextSettle ==
    \/ CallStoreWithinBound \/ OpenFile \/ WriteData \/ FinishStore
    \/ RejectStore
    \/ CallRetrieveWithinBound \/ ReadFile \/ ContinueRetrieve
    \/ SettleRetrieve

\* The calls run on the small directory under lru, within one millisecond
\* of the clock (new Date() reports one time throughout).
InitSettle ==
    /\ files = [p \in Paths |-> NoFile]
    /\ modelAccessLog = <<>>
    /\ clock = MaxClock
    /\ dirSize \in {d \in DirSizes :
                        \E w \in Weights :
                            Len(CompressModelWeights(w))
                                > CalculateMaxCacheSize(d)}
    /\ evictionStrategy = "lru"
    /\ lastOp = Outcome("none", "", <<>>)
    /\ createdOrder = <<>>
    /\ distinctStores = NoDistinctStores
    /\ calls = [c \in Callers |-> Idle]
    /\ VastInit

\* Every awaited step returns: the compression and the write resolve or
\* reject, the read and the decompression settle, and the event loop runs
\* the continuation of a settled await.
StepsReturn(c) ==
    /\ WF_vars(StoreOpenFile(c) \/ StoreAwaitRejects(c, "compression failed"))
    /\ WF_vars(StoreWriteData(c) \/ StoreAwaitRejects(c, "write failed"))
    /\ WF_vars(\E now \in Now : StoreTail(c, now))
    /\ WF_vars(RetrieveReadFile(c))
    /\ WF_vars(\E now \in Now : RetrieveContinue(c, now))
    /\ WF_vars(RetrieveSettle(c))

SpecSettle ==
    InitSettle /\ [][NextSettle]_vars /\ \A c \in Callers : StepsReturn(c)

\* -------------------------------------------------------- VastAIManager
\* Most offers in an API response.
MaxOffers == 2

\* Offers as the API lists them (scaled values); the ids follow the order of
\* the response.
OfferSpecs ==
    [num_gpus : {1, 2}, cuda_max_good : {1, 2}, dlperf : {0, 2}]

OfferLists ==
    UNION {[1..n -> OfferSpecs] : n \in 0..MaxOffers}

Offers(specs) ==
    [i \in 1..Len(specs) |->
        [id |-> i, num_gpus |-> specs[i].num_gpus,
         cuda_max_good |-> specs[i].cuda_max_good, dlperf |-> specs[i].dlperf]]

\* ModelRequirements: minDLPerf is optional.
Requirements ==
    [minGPUs : {1, 2}, minVRAM : {1, 2}, hasMinDLPerf : {TRUE},
     minDLPerf : {0, 1, 2}]
        \cup [minGPUs : {1, 2}, minVRAM : {1, 2}, hasMinDLPerf : {FALSE},
              minDLPerf : {0}]

InstanceIds == {1, 2}

Costs == {0, 3}

HttpResults == {"ok", "error"}

\* Mutant: the key is taken from the credentials without the check.
GetApiKeyUnchecked(creds) == [ok |-> TRUE, key |-> creds.vastaiApiKey]

\* getApiKey: throws unless credentials?.vastaiApiKey is truthy.
GetApiKey(creds) ==
    IF ~creds.present \/ creds.vastaiApiKey = ""
    THEN [ok |-> FALSE, key |-> ""]
    ELSE [ok |-> TRUE, key |-> creds.vastaiApiKey]

\* The predicate handed to offers.find: !requirements.minDLPerf is true for
\* undefined and for 0.
Suits(offer, requirements) ==
    /\ offer.num_gpus >= requirements.minGPUs
    /\ offer.cuda_max_good >= requirements.minVRAM
    /\ \/ ~requirements.hasMinDLPerf \/ requirements.minDLPerf = 0
       \/ offer.dlperf >= requirements.minDLPerf

\* Mutant: the last suitable offer (a reverse scan).
RECURSIVE ArrayFindLast(_, _, _)
ArrayFindLast(offers, requirements, i) ==
    IF i > Len(offers) THEN NoOffer
    ELSE LET later == ArrayFindLast(offers, requirements, i + 1)
         IN  IF later # NoOffer THEN later
             ELSE IF Suits(offers[i], requirements) THEN offers[i] ELSE NoOffer

\* offers.find(...) || null, scanning from index i.
RECURSIVE ArrayFind(_, _, _)
ArrayFind(offers, requirements, i) ==
    IF i > Len(offers) THEN NoOffer
    ELSE IF Suits(offers[i], requirements) THEN offers[i]
         ELSE ArrayFind(offers, requirements, i + 1)

\* The Error a call throws when getApiKey has thrown: not an AxiosError, so
\* the catch block rethrows it.
KeyNotFound(op) ==
    [VastOutcome(op) EXCEPT !.ok = FALSE, !.error = "VastAI API key not found"]

\* The Error a call throws when the HTTP request has failed.
RequestFailed(op) ==
    [VastOutcome(op) EXCEPT !.ok = FALSE, !.error = "request failed", !.sent = 1]

\* findSuitableInstance: get the key, GET /bundles, find the first offer.
FindSuitableInstance(requirements, http) ==
    /\ LET key == GetApiKey(credentials)
       IN  IF ~key.ok
           THEN /\ apiKey' = apiKey
                /\ vastOp' = [KeyNotFound("find") EXCEPT
                                  !.requirements = requirements]
           ELSE /\ apiKey' = key.key
                /\ vastOp' =
                       IF http = "error"
                       THEN [RequestFailed("find") EXCEPT
                                 !.requirements = requirements]
                       ELSE [VastOutcome("find") EXCEPT
                                 !.sent = 1, !.requirements = requirements,
                                 !.offer = ArrayFind(bundles, requirements, 1)]
    /\ UNCHANGED <<credentials, activeInstances, bundles>>
    /\ UNCHANGED storageVars

\* createInstance: get the key, POST /instances/create, record the id of
\* the response.
CreateInstance(instanceId, http) ==
    /\ LET key == GetApiKey(credentials)
       IN  IF ~key.ok
           THEN /\ apiKey' = apiKey
                /\ activeInstances' = activeInstances
                /\ vastOp' = KeyNotFound("create")
           ELSE /\ apiKey' = key.key
                /\ IF http = "error"
                   THEN /\ activeInstances' = activeInstances
                        /\ vastOp' = RequestFailed("create")
                   ELSE /\ activeInstances' = activeInstances \cup {instanceId}
                        /\ vastOp' = [VastOutcome("create") EXCEPT
                                          !.sent = 1, !.instanceId = instanceId]
    /\ UNCHANGED <<credentials, bundles>>
    /\ UNCHANGED storageVars

\* destroyInstance: get the key, DELETE /instances/<id>, forget the id.
DestroyInstance(instanceId, http) ==
    /\ LET key == GetApiKey(credentials)
       IN  IF ~key.ok
           THEN /\ apiKey' = apiKey
                /\ activeInstances' = activeInstances
                /\ vastOp' = [KeyNotFound("destroy") EXCEPT
                                  !.instanceId = instanceId]
           ELSE /\ apiKey' = key.key
                /\ IF http = "error"
                   THEN /\ activeInstances' = activeInstances
                        /\ vastOp' = [RequestFailed("destroy") EXCEPT
                                          !.instanceId = instanceId]
                   ELSE /\ activeInstances' = activeInstances \ {instanceId}
                        /\ vastOp' = [VastOutcome("destroy") EXCEPT
                                          !.sent = 1, !.instanceId = instanceId]
    /\ UNCHANGED <<credentials, bundles>>
    /\ UNCHANGED storageVars

\* getCurrentCosts: get the key, GET /users/current, current_cost || 0.
GetCurrentCosts(cost, http) ==
    /\ LET key == GetApiKey(credentials)
       IN  IF ~key.ok
           THEN /\ apiKey' = apiKey
                /\ vastOp' = KeyNotFound("costs")
           ELSE /\ apiKey' = key.key
                /\ vastOp' =
                       IF http = "error" THEN RequestFailed("costs")
                       ELSE [VastOutcome("costs") EXCEPT
                                 !.sent = 1, !.cost = cost]
    /\ UNCHANGED <<credentials, activeInstances, bundles>>
    /\ UNCHANGED storageVars

\* The user saves or clears the credentials (credentialManager).
CredentialsChange ==
    /\ credentials' \in CredentialStates \ {credentials}
    /\ vastOp' = VastOutcome("credentials")
    /\ UNCHANGED <<apiKey, activeInstances, bundles>>
    /\ UNCHANGED storageVars

FindInstance ==
    \E r \in Requirements, http \in HttpResults : FindSuitableInstance(r, http)

Create == \E id \in InstanceIds, http \in HttpResults : CreateInstance(id, http)

Destroy == \E id \in InstanceIds, http \in HttpResults : DestroyInstance(id, http)

CurrentCosts == \E cost \in Costs, http \in HttpResults : GetCurrentCosts(cost, http)

NextVast ==
    FindInstance \/ Create \/ Destroy \/ CurrentCosts \/ CredentialsChange

SpecVast == Init /\ [][NextVast]_vars

\* findSuitableInstance against every response of at most MaxOffers offers.
InitFind ==
    /\ files = [p \in Paths |-> NoFile]
    /\ modelAccessLog = <<>>
    /\ clock = 0
    /\ dirSize \in DirSizes
    /\ evictionStrategy = "lru"
    /\ lastOp = Outcome("none", "", <<>>)
    /\ createdOrder = <<>>
    /\ distinctStores = NoDistinctStores
    /\ calls = [c \in Callers |-> Idle]
    /\ credentials = NoCredentials
    /\ apiKey = NoApiKey
    /\ activeInstances = {}
    /\ bundles \in {Offers(specs) : specs \in OfferLists}
    /\ vastOp = VastOutcome("none")

NextFind == FindInstance \/ CredentialsChange

SpecFind == InitFind /\ [][NextFind]_vars

\* ------------------------------------------------------------ properties
FileExists(modelName) == files[GetModelStoragePath(modelName)].exists

Capacity == CalculateMaxCacheSize(dirSize)

\* The rank the configured strategy gives an entry.
Rank(e) ==
    IF evictionStrategy = "lru" THEN e.timestamp ELSE e.accessCount

\* The step is a completed store; lastOp' describes it.
IsStoreStep == lastOp'.op = "store" /\ lastOp'.ok

\* The candidates of the eviction a store step runs: the entries of the log
\* once the store has updated it (every other entry is as before the step).
StoredEntry ==
    [modelName |-> lastOp'.modelName, timestamp |-> clock',
     size |-> Len(CompressModelWeights(lastOp'.weights)),
     accessCount |-> IF lastOp'.modelName \in LogNames(modelAccessLog)
                     THEN EntryOf(modelAccessLog, lastOp'.modelName).accessCount + 1
                     ELSE 1]

Candidates ==
    {e \in Range(modelAccessLog) : e.modelName # lastOp'.modelName}
        \cup {StoredEntry}

Victims == {e \in Candidates : e.modelName \notin LogNames(modelAccessLog')}

Survivors == {e \in Candidates : e.modelName \in LogNames(modelAccessLog')}

\* C1: a store followed directly by a retrieve of the same name returns
\* exactly the bytes stored, whatever the cache held and whatever the capacity.
RoundTrip ==
    [][(/\ lastOp.op = "store" /\ lastOp.ok
        /\ lastOp'.op = "retrieve"
        /\ lastOp'.modelName = lastOp.modelName)
           => (lastOp'.ok /\ lastOp'.bytes = lastOp.weights)]_vars

\* C2: a retrieve of a name that has no file rejects with the not-found
\* error: it returns no bytes and throws no other kind of error.
RetrieveMissingNotFound ==
    [][(lastOp'.op = "retrieve" /\ ~FileExists(lastOp'.modelName))
           => (/\ ~lastOp'.ok
               /\ lastOp'.error = "not found in storage"
               /\ lastOp'.bytes = <<>>)]_vars

\* C2 witness: a retrieve of a missing name has rejected while other
\* artifacts are stored.
RetrieveMissingReached ==
    /\ lastOp.op = "retrieve" /\ ~lastOp.ok
    /\ ~FileExists(lastOp.modelName)
    /\ modelAccessLog # <<>>

\* C3: the victims of a store's eviction are taken in ascending rank: no
\* survivor other than the entry just written ranks strictly below a victim.
\* And when a, b, c of one compressed size s are stored in that order into an
\* empty cache under lru whose capacity holds two but not three of them,
\* exactly a is evicted and b, c remain.
EvictionInRankOrder ==
    [][IsStoreStep =>
         /\ \A v \in Victims, s \in Survivors :
                s.modelName # lastOp'.modelName => ~(Rank(s) < Rank(v))
         /\ (/\ evictionStrategy = "lru"
             /\ distinctStores.pure /\ ~distinctStores.evictions
             /\ Len(createdOrder) = 2
             /\ lastOp'.modelName \notin distinctStores.names
             /\ \A e \in Range(modelAccessLog) : e.size = StoredEntry.size
             /\ 2 * StoredEntry.size <= Capacity
             /\ Capacity < 3 * StoredEntry.size)
                => CachedModels(modelAccessLog')
                       = <<createdOrder[2], lastOp'.modelName>>]_vars

\* C3 witness: the third of three equal-sized artifacts has been stored under
\* lru and its store has evicted exactly the first.
ThirdStoreEvictedFirst ==
    /\ evictionStrategy = "lru"
    /\ lastOp.op = "store" /\ Len(lastOp.evicted) = 1
    /\ distinctStores.pure /\ Cardinality(distinctStores.names) = 3
    /\ Len(modelAccessLog) = 2
    /\ \A e \in Range(modelAccessLog) :
           e.size = Len(CompressModelWeights(lastOp.weights))
    /\ 2 * Len(CompressModelWeights(lastOp.weights)) <= Capacity

\* C4: a store never evicts the entry it has just written: once it has
\* resolved, the name is listed and its file is on disk.
StoreKeepsOwnEntry ==
    (lastOp.op = "store" /\ lastOp.ok)
        => /\ lastOp.modelName \in Range(CachedModels(modelAccessLog))
           /\ FileExists(lastOp.modelName)

\* C5: a store of an artifact whose compressed size alone exceeds the capacity
\* resolves, the artifact stays stored, occupied space is left above the
\* capacity and a warning is sent.
OversizeStoreStays ==
    (/\ lastOp.op = "store"
     /\ Len(CompressModelWeights(lastOp.weights)) > Capacity)
        => /\ lastOp.ok
           /\ lastOp.modelName \in LogNames(modelAccessLog)
           /\ FileExists(lastOp.modelName)
           /\ CalculateTotalCacheSize(modelAccessLog) > Capacity
           /\ "warning" \in Range(lastOp.notes)

\* The sum of the sizes of the entries of the given names.
RECURSIVE SizeOfNames(_)
SizeOfNames(S) ==
    IF S = {} THEN 0
    ELSE LET n == CHOOSE x \in S : TRUE
         IN  EntryOf(modelAccessLog, n).size + SizeOfNames(S \ {n})

\* C7: the cache stats agree with the listing: totalSize is the sum of the
\* sizes of exactly the listed names, totalModels is their number, and
\* availableSpace is the capacity minus totalSize.
StatsConsistent ==
    LET listed == Range(CachedModels(modelAccessLog))
        stats == CacheStats(modelAccessLog, dirSize)
    IN  /\ stats.totalSize = SizeOfNames(listed)
        /\ stats.totalModels = Cardinality(listed)
        /\ stats.availableSpace = Capacity - SizeOfNames(listed)
        /\ lastOp.op = "stats" => lastOp.stats = stats

\* C7 witness: getCacheStats has returned for a cache that holds entries of
\* different sizes, one of them stored twice.
StatsOfMixedCache ==
    /\ lastOp.op = "stats"
    /\ \E e, f \in Range(modelAccessLog) : e.size # f.size /\ e.accessCount > 1

ListHoldsEveryStoredName ==
    distinctStores.pure
        => /\ Range(CachedModels(modelAccessLog)) = distinctStores.names
           /\ Len(CachedModels(modelAccessLog))
                  = Cardinality(distinctStores.names)

\* C9 amended: after stores of distinct names only, none of which triggered
\* an eviction, the listing holds exactly the stored names, each once.
ListHoldsStoredNamesUnlessEvicted ==
    (distinctStores.pure /\ ~distinctStores.evictions)
        => /\ Range(CachedModels(modelAccessLog)) = distinctStores.names
           /\ Len(CachedModels(modelAccessLog))
                  = Cardinality(distinctStores.names)

\* C9 witness: three distinct names have been stored without an eviction.
ThreeDistinctStored ==
    /\ distinctStores.pure /\ ~distinctStores.evictions
    /\ Cardinality(distinctStores.names) = 3

Position(seq, x) == CHOOSE i \in 1..Len(seq) : seq[i] = x

\* The live entries by age at the eviction of a store step, oldest first.
CreatedAtEviction ==
    IF lastOp'.modelName \in Range(createdOrder) THEN createdOrder
    ELSE Append(createdOrder, lastOp'.modelName)

\* C10: of two eviction candidates of equal rank, the one whose entry was
\* created earlier is evicted first: an evicted candidate is older than every
\* surviving candidate of its rank.
TiesEvictOldestEntryFirst ==
    [][IsStoreStep =>
         \A v \in Victims, s \in Survivors :
             Rank(v) = Rank(s)
                 => Position(CreatedAtEviction, v.modelName)
                        < Position(CreatedAtEviction, s.modelName)]_vars

\* C10 witness: under lru a store has evicted an entry and spared another
\* while every timestamp was 0.
TieBroken ==
    /\ evictionStrategy = "lru" /\ clock = 0
    /\ lastOp.op = "store" /\ lastOp.evicted # <<>>
    /\ modelAccessLog # <<>>

\* C6: in every state a caller can observe, whatever calls overlap, occupied
\* space is at most the capacity, so the availableSpace of getCacheStats is
\* never negative: the excess a store creates is gone when its turn ends.
OccupiedWithinCapacity ==
    /\ CalculateTotalCacheSize(modelAccessLog) <= Capacity
    /\ CacheStats(modelAccessLog, dirSize).availableSpace >= 0

\* C6 witness: a store that overflowed the capacity has completed, with its
\* eviction, while another call is in flight and an entry is left.
OverflowingStoreCompleted ==
    /\ lastOp.op = "store" /\ lastOp.evicted # <<>>
    /\ "warning" \in Range(lastOp.notes)
    /\ \E c \in Callers : calls[c] # Idle
    /\ modelAccessLog # <<>>

\* The step is a call on modelName that resolved.
IsSuccessOn(modelName) ==
    /\ lastOp'.op \in {"store", "retrieve"}
    /\ lastOp'.ok
    /\ lastOp'.modelName = modelName

\* C11: while the entry of a name exists its accessCount never decreases; a
\* store or retrieve of the name that resolves raises it by exactly 1 and sets
\* the timestamp to the time of the call, the store that creates the entry
\* sets the count to 1, and a call on another name leaves the count alone.
AccessCountAdvances ==
    [][\A n \in Names :
         /\ (n \in LogNames(modelAccessLog) /\ n \in LogNames(modelAccessLog'))
                => LET before == EntryOf(modelAccessLog, n)
                       after == EntryOf(modelAccessLog', n)
                   IN  /\ after.accessCount >= before.accessCount
                       /\ IsSuccessOn(n)
                              => /\ after.accessCount = before.accessCount + 1
                                 /\ after.timestamp = clock'
                       /\ lastOp'.modelName # n
                              => after.accessCount = before.accessCount
         /\ (n \notin LogNames(modelAccessLog) /\ n \in LogNames(modelAccessLog'))
                => /\ IsSuccessOn(n) /\ lastOp'.op = "store"
                   /\ EntryOf(modelAccessLog', n).accessCount = 1
                   /\ EntryOf(modelAccessLog', n).timestamp = clock']_vars

\* C11 witness: a retrieve has resolved and raised the count of its entry to
\* 2 at a later time than the store, next to an entry it left at count 1.
RetrieveCounted ==
    /\ lastOp.op = "retrieve" /\ lastOp.ok
    /\ lastOp.modelName \in LogNames(modelAccessLog)
    /\ EntryOf(modelAccessLog, lastOp.modelName).accessCount = 2
    /\ EntryOf(modelAccessLog, lastOp.modelName).timestamp = clock
    /\ \E e \in Range(modelAccessLog) :
           e.modelName # lastOp.modelName /\ e.accessCount = 1
                                         /\ e.timestamp < clock

\* C12: a store of a name already in the log that triggers no eviction leaves
\* the number of entries unchanged, and occupied space changes by the new
\* compressed size minus the old one.
RestoreReplacesEntry ==
    [][(/\ IsStoreStep
        /\ lastOp'.modelName \in LogNames(modelAccessLog)
        /\ lastOp'.evicted = <<>>)
           => /\ Len(modelAccessLog') = Len(modelAccessLog)
              /\ CalculateTotalCacheSize(modelAccessLog')
                     = CalculateTotalCacheSize(modelAccessLog)
                           + Len(CompressModelWeights(lastOp'.weights))
                           - EntryOf(modelAccessLog, lastOp'.modelName).size]_vars

\* C12 witness: a name has been stored a second time, with a payload of
\* another compressed size than an entry beside it, and nothing was evicted.
StoredAgain ==
    /\ lastOp.op = "store" /\ lastOp.evicted = <<>>
    /\ lastOp.modelName \in LogNames(modelAccessLog)
    /\ EntryOf(modelAccessLog, lastOp.modelName).accessCount = 2
    /\ \E e \in Range(modelAccessLog) :
           e.size # EntryOf(modelAccessLog, lastOp.modelName).size

\* C13: the pairing survives a restart: in an instance constructed on a
\* directory that holds stored files, every stored file has an entry, so the
\* listing names it and the stats count its size.
PairingSurvivesRestart ==
    lastOp.op = "construct"
        => \A n \in Names :
               FileExists(n)
                   => /\ n \in Range(CachedModels(modelAccessLog))
                      /\ EntryOf(modelAccessLog, n).size
                             = Len(files[GetModelStoragePath(n)].data)
                      /\ CacheStats(modelAccessLog, dirSize).totalSize
                             >= Len(files[GetModelStoragePath(n)].data)

\* C14: a store with an empty name or an empty payload rejects with a
\* validation error and has no effect: no file is written, the log is as
\* before and nothing is evicted.
StoreValidatesInput ==
    [][(/\ lastOp'.op = "store"
        /\ (lastOp'.modelName = EmptyName \/ lastOp'.weights = EmptyWeights))
           => /\ ~lastOp'.ok
              /\ lastOp'.error = "validation"
              /\ files' = files
              /\ modelAccessLog' = modelAccessLog
              /\ lastOp'.evicted = <<>>]_vars

\* C15: a retrieve that rejects does so with the not-found error exactly when
\* no file exists for the name; when the file exists but cannot be read or
\* fails to decompress, the error is of another kind.
RetrieveFailureKinds ==
    [][(lastOp'.op = "retrieve" /\ ~lastOp'.ok)
           => (lastOp'.error = "not found in storage"
                   <=> ~FileExists(lastOp'.modelName))]_vars

\* C16: a store whose compression or file write fails rejects with that
\* error, and the access log is exactly as before the call: no entry is
\* created or updated and no eviction takes place (no other file is removed).
FailedStoreLeavesLog ==
    [][(lastOp'.op = "store" /\ ~lastOp'.ok)
           => /\ lastOp'.error \in StoreFaults
              /\ modelAccessLog' = modelAccessLog
              /\ lastOp'.evicted = <<>>
              /\ \A n \in Names :
                     n # lastOp'.modelName
                         => files'[GetModelStoragePath(n)]
                                = files[GetModelStoragePath(n)]]_vars

\* C16 witness: the write of a store of a logged name has failed midway: the
\* call rejected with the write error and the entry is as the earlier store
\* left it, beside a file that is shorter than the entry says.
FailedWriteOverStored ==
    /\ lastOp.op = "store" /\ ~lastOp.ok /\ lastOp.error = "write failed"
    /\ lastOp.modelName \in LogNames(modelAccessLog)
    /\ EntryOf(modelAccessLog, lastOp.modelName).accessCount = 1
    /\ FileExists(lastOp.modelName)
    /\ Len(files[GetModelStoragePath(lastOp.modelName)].data)
           < EntryOf(modelAccessLog, lastOp.modelName).size

\* A retrieve in flight: suspended on its read or on its decompression.
RetrieveInFlight(c) ==
    calls[c].op = "retrieve" /\ calls[c].pc \in {"read", "readdone", "decompress"}

\* The step ends the call of caller c; lastOp' holds its outcome.
Completes(c) == calls[c] # Idle /\ calls'[c] = Idle

\* C17: the eviction a store runs never deletes the entry or the file of a
\* name that a retrieve in flight is reading or decompressing.
EvictionSparesInFlightRetrieve ==
    [][\A c, d \in Callers :
         (/\ RetrieveInFlight(c)
          /\ calls[d].op = "store" /\ Completes(d)
          /\ calls[d].modelName # calls[c].modelName)
             => calls[c].modelName \notin Range(lastOp'.evicted)]_vars

\* C18: a retrieve whose read takes place while a store of the same name has
\* the file open, the name having an entry from an earlier store, reads a
\* complete file: what it goes on to return is a payload that was stored
\* whole, the earlier one or the new one.
RetrieveSeesWholeFile ==
    [][\A c, d \in Callers :
         (/\ calls[c].op = "retrieve"
          /\ calls[c].pc = "read" /\ calls'[c].pc = "readdone"
          /\ calls[d].op = "store" /\ calls[d].pc \in {"write", "written"}
          /\ calls[d].modelName = calls[c].modelName
          /\ calls[c].modelName \in LogNames(modelAccessLog))
             => /\ calls'[c].ok
                /\ DecompressModelWeights(calls'[c].data).ok
                /\ DecompressModelWeights(calls'[c].data).bytes \in Weights]_vars

\* No call is in flight.
AllCompleted == \A c \in Callers : calls[c] = Idle

\* The file of the name holds the compressed form of a payload, whole, and
\* the entry of the name records its size.
FileMatchesEntry(modelName) ==
    /\ FileExists(modelName)
    /\ \E w \in Weights :
           files[GetModelStoragePath(modelName)].data = CompressModelWeights(w)
    /\ Len(files[GetModelStoragePath(modelName)].data)
           = EntryOf(modelAccessLog, modelName).size

\* C19: once overlapping stores of different names have all completed, every
\* name in the log has its file, holding a whole payload of the size the
\* entry records, and no file is left without an entry.
OtherNamesKeepPairing ==
    AllCompleted
        => \A n \in Names :
               /\ n \in LogNames(modelAccessLog) => FileMatchesEntry(n)
               /\ FileExists(n) => n \in LogNames(modelAccessLog)

\* C20: once overlapping stores of one name have completed, the file holds
\* the payload whose size the entry records: content and entry are those of
\* the same store.
SameNameStoresSerialize ==
    (AllCompleted /\ SameName \in LogNames(modelAccessLog))
        => FileMatchesEntry(SameName)

\* C21: listCachedModels and getCacheStats change no entry and no file; a
\* retrieve removes no entry and no file and changes no entry other than
\* that of the retrieved name; so a step that removes an entry or a file is
\* a store.
OnlyStoreDeletes ==
    [][/\ lastOp'.op \in {"list", "stats"}
              => (files' = files /\ modelAccessLog' = modelAccessLog)
       /\ lastOp'.op = "retrieve"
              => /\ files' = files
                 /\ CachedModels(modelAccessLog') = CachedModels(modelAccessLog)
                 /\ \A n \in LogNames(modelAccessLog) :
                        n # lastOp'.modelName
                            => EntryOf(modelAccessLog', n)
                                   = EntryOf(modelAccessLog, n)
       /\ (\E n \in Names :
               \/ n \in LogNames(modelAccessLog) \ LogNames(modelAccessLog')
               \/ FileExists(n) /\ ~files'[GetModelStoragePath(n)].exists)
              => IsStoreStep]_vars

\* C21 witness: a retrieve of a logged name has completed, its entry counted
\* twice, beside the entry and the file of another name.
RetrieveBesideOther ==
    /\ lastOp.op = "retrieve"
    /\ lastOp.modelName \in LogNames(modelAccessLog)
    /\ EntryOf(modelAccessLog, lastOp.modelName).accessCount = 2
    /\ \E n \in LogNames(modelAccessLog) :
           n # lastOp.modelName /\ FileExists(n)

\* Occupied space when the store of a step has updated the log, before its
\* eviction.
OccupiedAfterWrite ==
    CalculateTotalCacheSize(modelAccessLog)
        - (IF lastOp'.modelName \in LogNames(modelAccessLog)
           THEN EntryOf(modelAccessLog, lastOp'.modelName).size ELSE 0)
        + Len(CompressModelWeights(lastOp'.weights))

Meets(offer, requirements) ==
    /\ offer.num_gpus >= requirements.minGPUs
    /\ offer.cuda_max_good >= requirements.minVRAM
    /\ requirements.hasMinDLPerf => offer.dlperf >= requirements.minDLPerf

\* C23: findSuitableInstance returns the first offer, in the order of the
\* response, that meets the three requirements, and null exactly when none
\* does.
FindsFirstSuitableOffer ==
    (vastOp.op = "find" /\ vastOp.ok)
        => LET meeting == {i \in 1..Len(bundles) :
                              Meets(bundles[i], vastOp.requirements)}
           IN  IF meeting = {} THEN vastOp.offer = NoOffer
               ELSE /\ vastOp.offer \in Range(bundles)
                    /\ vastOp.offer.id \in meeting
                    /\ \A i \in meeting : vastOp.offer.id <= i

\* C23 witness: of two offers that both meet requirements with a minDLPerf,
\* the first has been returned.
FirstOfTwoReturned ==
    /\ vastOp.op = "find" /\ vastOp.ok
    /\ Len(bundles) = 2
    /\ vastOp.requirements.hasMinDLPerf /\ vastOp.requirements.minDLPerf = 2
    /\ \A i \in 1..2 : Meets(bundles[i], vastOp.requirements)
    /\ vastOp.offer = bundles[1]

VastCalls == {"find", "create", "destroy", "costs"}

\* C24: with no API key stored (null credentials or an empty key) every
\* VastAIManager call rejects with 'VastAI API key not found', having sent
\* no HTTP request, and the set of active instances is unchanged.
MissingKeyRejectsBeforeRequest ==
    [][(/\ vastOp'.op \in VastCalls
        /\ (~credentials.present \/ credentials.vastaiApiKey = ""))
           => /\ ~vastOp'.ok
              /\ vastOp'.error = "VastAI API key not found"
              /\ vastOp'.sent = 0
              /\ activeInstances' = activeInstances]_vars

\* C24 witness: destroyInstance of an active instance has rejected for an
\* empty key, and the instance is still in the set.
DestroyRejectedForEmptyKey ==
    /\ vastOp.op = "destroy" /\ ~vastOp.ok
    /\ vastOp.error = "VastAI API key not found"
    /\ credentials.present /\ credentials.vastaiApiKey = ""
    /\ vastOp.instanceId \in activeInstances

\* The size of a candidate of the eviction a store step runs.
CandidateSize(modelName) ==
    IF modelName = lastOp'.modelName
    THEN Len(CompressModelWeights(lastOp'.weights))
    ELSE EntryOf(modelAccessLog, modelName).size

\* The bytes freed by the first k victims of the eviction of a store step.
RECURSIVE FreedByVictims(_)
FreedByVictims(k) ==
    IF k = 0 THEN 0
    ELSE CandidateSize(lastOp'.evicted[k]) + FreedByVictims(k - 1)

\* C25: a store whose write leaves occupied space within the capacity evicts
\* nothing and leaves every other entry and file as it was; and a store that
\* evicts removes each victim only while occupied space, less the victims
\* already removed, still exceeds the capacity.
EvictsOnlyWhileOverCapacity ==
    [][IsStoreStep =>
         /\ OccupiedAfterWrite <= Capacity
                => /\ lastOp'.evicted = <<>>
                   /\ \A n \in LogNames(modelAccessLog) \ {lastOp'.modelName} :
                          /\ n \in LogNames(modelAccessLog')
                          /\ EntryOf(modelAccessLog', n) = EntryOf(modelAccessLog, n)
                          /\ files'[GetModelStoragePath(n)]
                                 = files[GetModelStoragePath(n)]
         /\ \A j \in 1..Len(lastOp'.evicted) :
                OccupiedAfterWrite - FreedByVictims(j - 1) > Capacity]_vars

\* C25 witness: a store has evicted one entry, which brought occupied space
\* within the capacity, and has spared another older entry.
EvictionStoppedAtCapacity ==
    /\ lastOp.op = "store" /\ Len(lastOp.evicted) = 1
    /\ Len(modelAccessLog) = 2
    /\ lastOp.modelName \in LogNames(modelAccessLog)
    /\ CalculateTotalCacheSize(modelAccessLog) <= Capacity

\* C26: under lru, when the time of a store is strictly later than the
\* timestamp of every other entry, the store evicts the entry it has just
\* written if and only if the compressed size of that entry alone exceeds the
\* capacity; when it does, the entry is the last victim.
SelfEvictionIffOversize ==
    [][(/\ IsStoreStep
        /\ evictionStrategy = "lru"
        /\ \A e \in Range(modelAccessLog) :
               e.modelName # lastOp'.modelName => e.timestamp < clock')
           => /\ lastOp'.modelName \in Range(lastOp'.evicted)
                     <=> StoredEntry.size > Capacity
              /\ lastOp'.modelName \in Range(lastOp'.evicted)
                     => lastOp'.evicted[Len(lastOp'.evicted)]
                            = lastOp'.modelName]_vars

\* C26 witness: under lru a store later than every entry has evicted an
\* older entry and then, its size alone exceeding the capacity, its own.
OversizeEvictedLast ==
    /\ evictionStrategy = "lru"
    /\ lastOp.op = "store" /\ Len(lastOp.evicted) = 2
    /\ lastOp.evicted[2] = lastOp.modelName
    /\ Len(CompressModelWeights(lastOp.weights)) > Capacity
    /\ clock > 0

\* C27: a retrieve that rejects, for a read error or a decompression error,
\* leaves the access log as it was: no accessCount and no timestamp changes.
FailedRetrieveLeavesLog ==
    [][(lastOp'.op = "retrieve" /\ ~lastOp'.ok)
           => modelAccessLog' = modelAccessLog]_vars

\* The number of notifications of a type among those a call sent.
CountNotes(notes, type) == Len(SelectSeq(notes, LAMBDA t : t = type))

\* The notification type of the 'Successfully stored' / 'Successfully
\* retrieved' message of a call.
SuccessNote(op) == IF op = "store" THEN "success" ELSE "info"

\* C28: the notifications of a store or retrieve match its outcome: a call
\* that resolved sent its success notification and no error notification; a
\* call that rejected sent exactly one error notification and no success
\* notification.
NotificationsMatchOutcome ==
    lastOp.op \in {"store", "retrieve"}
        => IF lastOp.ok
           THEN /\ CountNotes(lastOp.notes, SuccessNote(lastOp.op)) = 1
                /\ CountNotes(lastOp.notes, "error") = 0
           ELSE /\ CountNotes(lastOp.notes, "error") = 1
                /\ CountNotes(lastOp.notes, SuccessNote(lastOp.op)) = 0

\* C29: a retrieve of a name that has a file and no entry returns the bytes
\* of the file and creates no entry: the listing and the stats are as they
\* were.
RetrieveCreatesNoEntry ==
    [][(/\ lastOp'.op = "retrieve"
        /\ FileExists(lastOp'.modelName)
        /\ lastOp'.modelName \notin LogNames(modelAccessLog))
           => /\ lastOp'.ok
              /\ CompressModelWeights(lastOp'.bytes)
                     = files[GetModelStoragePath(lastOp'.modelName)].data
              /\ CachedModels(modelAccessLog') = CachedModels(modelAccessLog)
              /\ CacheStats(modelAccessLog', dirSize)
                     = CacheStats(modelAccessLog, dirSize)]_vars

\* C29 witness: in an instance constructed on a directory that held a file,
\* a retrieve has returned the bytes of that file, the name is not listed,
\* and another name, stored since, is.
UnlistedFileRetrieved ==
    /\ lastOp.op = "retrieve" /\ lastOp.ok /\ lastOp.bytes # <<>>
    /\ FileExists(lastOp.modelName)
    /\ lastOp.modelName \notin LogNames(modelAccessLog)
    /\ modelAccessLog # <<>>

\* No name twice in a sequence of names.
NoDuplicates(seq) ==
    \A i, j \in 1..Len(seq) : i # j => seq[i] # seq[j]

\* C30: when every awaited step returns, a call in flight ends (it resolves
\* or rejects: its caller is idle again, time after time), and the eviction
\* loop of a store removes an entry at most once and runs over entries of the
\* log only.
CallsRunToCompletion ==
    /\ \A c \in Callers : []<>(calls[c] = Idle)
    /\ [][\A c \in Callers :
              (Completes(c) /\ calls[c].op = "store" /\ lastOp'.ok)
                  => /\ NoDuplicates(lastOp'.evicted)
                     /\ Range(lastOp'.evicted)
                            \subseteq LogNames(modelAccessLog)
                                          \cup {calls[c].modelName}]_vars

\* C30 witness: every call has ended, the last one a store whose eviction
\* loop removed the entry of the other name and stopped.
EvictionLoopStopped ==
    /\ AllCompleted
    /\ lastOp.op = "store" /\ lastOp.ok
    /\ Len(lastOp.evicted) = 1
    /\ lastOp.evicted[1] # lastOp.modelName
    /\ lastOp.modelName \in LogNames(modelAccessLog)

====
